---------------------------- MODULE Spec2Model ----------------------------
(***************************************************************************)
(* A model of ILLIXR's switchboard (src/common/switchboard.hpp): the topic *)
(* registry, the topics with their latest-value ring and subscription      *)
(* list, the subscriptions with their queue and worker thread, and the     *)
(* typed reader / writer handles.                                          *)
(*                                                                         *)
(* The model is of the build with assertions enabled (NDEBUG not defined): *)
(* a failed assert or an abort() ends the process, which the model records *)
(* in the variable fatal; no action is enabled once fatal is set.          *)
(*                                                                         *)
(* Client threads call the public operations; each operation is cut into   *)
(* steps at the places where it reads or writes state shared with other    *)
(* threads (atomic loads and stores, lock acquisitions, queue operations). *)
(***************************************************************************)
EXTENDS Naturals, Sequences, FiniteSets

\* ------------------------------------------------------------------ bounds

\* Events published over a run.
MaxPublish == 3
\* Subscriptions scheduled over a run.
MaxSubs == 2
\* Calls of switchboard::stop over a run.
MaxStops == 2
\* Events published over a run of the burst scenario (SpecShed).
MaxBurst == 4
\* Depth of the latest-value ring; 256 in the source (switchboard.hpp:223),
\* scaled down so that the ring wraps around within MaxPublish publishes.
latest_buffer_size == 2
\* High-water mark of the named subscriber; 50 in the source
\* (switchboard.hpp:189), scaled down so that the queue can exceed it.
high_water == 1

\* ------------------------------------------------------------- input sets

Clients == {"t1", "t2"}
Names == {"p", "q"}
Types == {"i32", "f64"}
Accounts == {"S", "imu_integrator"}

NoTopic == [ty |-> "no_topic", id |-> 0]
Free == "free"
NoFatal == "none"

\* A null ptr<const event>.
NullEvent == [id |-> 0, ty |-> "null", val |-> 0]

\* What a read of a slot yields when it overlaps a write of the same slot
\* and the copy is torn: not a usable ptr<const event>.
TornEvent == [id |-> 0, ty |-> "torn", val |-> 0]

\* The local variables of a client thread that is not inside a call.
NoLocal == [op |-> "none"]

\* No read has returned to the client thread yet.
NoRead == [n |-> 0, id |-> 0]

VARIABLES
    registry,            \* _m_registry: name -> the topic (its _m_ty and identity), or NoTopic
    topics_made,         \* topic objects constructed so far
    registry_lock,       \* _m_registry_lock: the threads holding it shared
    latest_index,        \* topic::_m_latest_index, per topic name
    latest_buffer,       \* topic::_m_latest_buffer, per topic name
    subscriptions,       \* topic::_m_subscriptions: sequence of subscription ids
    subscriptions_lock,  \* topic::_m_subscriptions_lock: its holder, or Free
    subs,                \* every topic_subscription ever constructed, by id
    handles,             \* the reader / writer handles handed out
    pc,                  \* each client thread's position
    local,               \* each client thread's local variables
    fatal,               \* the failed assertion / abort that ended the process
    allocated,           \* events built by writer::allocate so far
    last_put,            \* per topic: the argument of the last completed put
    returned_puts,       \* ids of the events whose put has returned
    stops,               \* calls of switchboard::stop that have returned
    stopped_subs,        \* subscriptions that existed when a returned stop was called
    names,               \* the topic names the clients of this run use
    last_read            \* per client: the index loaded and the event returned by its last read

vars == <<registry, topics_made, registry_lock, latest_index, latest_buffer, subscriptions,
          subscriptions_lock, subs, handles, pc, local, fatal,
          allocated, last_put, returned_puts, stops, stopped_subs, names, last_read>>

topic_vars == <<latest_index, latest_buffer, subscriptions, subscriptions_lock>>
hist_vars == <<allocated, last_put, returned_puts, stops, stopped_subs, names, last_read>>

\* ----------------------------------------------------------------- helpers

SubIds == 1..Len(subs)

EmptyRing == [i \in 0..(latest_buffer_size - 1) |-> NullEvent]

\* std::dynamic_pointer_cast<const specific_event>(this_event): the pointer
\* itself when the event's dynamic type is specific_event, null otherwise.
dynamic_pointer_cast(ty, ev) == IF ev.ty = ty THEN ev ELSE NullEvent

Running(t) == pc[t] # "off" /\ fatal = NoFatal

\* The state after construction of the switchboard, with the client threads
\* in `active` started, which will use the topic names in `used`.
InitWith(active, used) ==
    /\ registry = [n \in Names |-> NoTopic]
    /\ topics_made = 0
    /\ registry_lock = {}
    /\ latest_index = [n \in Names |-> 0]
    /\ latest_buffer = [n \in Names |-> EmptyRing]
    /\ subscriptions = [n \in Names |-> <<>>]
    /\ subscriptions_lock = [n \in Names |-> Free]
    /\ subs = <<>>
    /\ handles = {}
    /\ pc = [t \in Clients |-> IF t \in active THEN "idle" ELSE "off"]
    /\ local = [t \in Clients |-> NoLocal]
    /\ fatal = NoFatal
    /\ allocated = 0
    /\ last_put = [n \in Names |-> NullEvent]
    /\ returned_puts = {}
    /\ stops = 0
    /\ stopped_subs = {}
    /\ names = used
    /\ last_read = [t \in Clients |-> NoRead]

Init == InitWith({"t1"}, {"p"})

\* ---------------------------------------------------------------- registry

\* A type check that accepts every type.
type_unchecked(ty, topic_) == TRUE

\* typeid(specific_event) != topic_.ty() is the mismatch; this is its negation.
type_matches(ty, topic_) == ty = topic_.ty

\* _m_registry.find(topic_name) != _m_registry.end()
found(topic_name) == registry[topic_name] # NoTopic

\* An insertion that overwrites the entry of a name that has one.
insert_or_assign(topic_name, ty) ==
    /\ registry' = [registry EXCEPT ![topic_name] =
                        [ty |-> ty, id |-> topics_made + 1]]
    /\ topics_made' = topics_made + 1

\* _m_registry.try_emplace(topic_name, topic_name, typeid(specific_event)):
\* constructs and inserts a topic only if the name has no entry.
try_emplace(topic_name, ty) ==
    IF registry[topic_name] = NoTopic
    THEN /\ registry' = [registry EXCEPT ![topic_name] =
                             [ty |-> ty, id |-> topics_made + 1]]
         /\ topics_made' = topics_made + 1
    ELSE UNCHANGED <<registry, topics_made>>

\* The abort() of a type check: the process ends where it stands.
abort_type_mismatch(t) ==
    /\ fatal' = "TypeMismatch"
    /\ UNCHANGED <<handles, pc, local>>

\* What the caller of try_register_topic does with the topic it got back:
\* reader::reader / writer::writer check the type and keep the reference;
\* switchboard::schedule goes on to topic::schedule without any check.
\* `via` records which block of try_register_topic returned the topic.
attach(t, op, topic_, via) ==
    IF op.op = "schedule"
    THEN /\ pc' = [pc EXCEPT ![t] = "schedule"]
         /\ local' = [local EXCEPT ![t] = [op EXCEPT !.topic = topic_.id, !.via = via]]
         /\ UNCHANGED <<handles, fatal>>
    ELSE IF ~type_matches(op.ty, topic_)
    THEN abort_type_mismatch(t)
    ELSE /\ handles' = handles \cup
                {[kind |-> op.op, name |-> op.name, ty |-> op.ty, topic |-> topic_.id]}
         /\ pc' = [pc EXCEPT ![t] = "idle"]
         /\ local' = [local EXCEPT ![t] = NoLocal]
         /\ UNCHANGED fatal

\* try_register_topic, first block: the lookup under the shared registry lock.
\* The exclusive registry lock is only ever held within one step, so the
\* shared lock can always be taken.
try_register_lookup(t, op) ==
    /\ Running(t)
    /\ pc[t] = "idle"
    /\ IF found(op.name)
       THEN IF ~type_matches(op.ty, registry[op.name])
            THEN abort_type_mismatch(t)
            ELSE attach(t, op, registry[op.name], "find")
       ELSE /\ pc' = [pc EXCEPT ![t] = "emplace"]
            /\ local' = [local EXCEPT ![t] = op]
            /\ UNCHANGED <<handles, fatal>>
    /\ UNCHANGED <<registry, topics_made, registry_lock, topic_vars, subs, hist_vars>>

\* switchboard::get_writer<specific_event>(topic_name)
get_writer(t, topic_name, ty) ==
    try_register_lookup(t, [op |-> "writer", name |-> topic_name, ty |-> ty,
                            account |-> "", topic |-> 0, via |-> "", sub |-> 0])

\* switchboard::get_reader<specific_event>(topic_name)
get_reader(t, topic_name, ty) ==
    try_register_lookup(t, [op |-> "reader", name |-> topic_name, ty |-> ty,
                            account |-> "", topic |-> 0, via |-> "", sub |-> 0])

\* switchboard::schedule<specific_event>(account_name, topic_name, fn)
schedule(t, account_name, topic_name, ty) ==
    /\ Len(subs) + Cardinality({u \in Clients : pc[u] \in {"emplace", "schedule"}
                                                 /\ local[u].op = "schedule"}) < MaxSubs
    /\ try_register_lookup(t, [op |-> "schedule", name |-> topic_name, ty |-> ty,
                               account |-> account_name, topic |-> 0, via |-> "", sub |-> 0])

\* try_register_topic, second block: the topic was not found; take the
\* registry lock exclusively (no thread holds it shared) and try_emplace.
try_register_emplace(t) ==
    /\ Running(t)
    /\ pc[t] = "emplace"
    /\ registry_lock = {}
    /\ try_emplace(local[t].name, local[t].ty)
    /\ attach(t, local[t], registry'[local[t].name], "try_emplace")
    /\ UNCHANGED <<registry_lock, topic_vars, subs, hist_vars>>

\* ------------------------------------------------------------ subscription

\* A subscription that starts with the topic's latest event in its queue.
topic_subscription_replay(topic_name, topic_id, account_name, ty) ==
    [topic_name |-> topic_name, topic |-> topic_id, account |-> account_name,
     ty |-> ty,
     queue |-> IF last_put[topic_name] = NullEvent THEN <<>>
               ELSE <<last_put[topic_name]>>,
     enqueued |-> IF last_put[topic_name] = NullEvent THEN 0 ELSE 1,
     dequeued |-> 0, state |-> "running", wpc |-> "loop",
     log |-> <<>>, received |-> <<>>, shed |-> <<>>, drained |-> <<>>,
     before |-> returned_puts, scheduled |-> FALSE, before_return |-> {}]

\* topic_subscription's constructor: the members as initialised, and
\* _m_thread.start() done (the worker is running, at its loop test).
\* `before` records the puts that had returned when the subscription was
\* made; `before_return` will record those that had returned when the
\* schedule call returned (`scheduled`).
topic_subscription(topic_name, topic_id, account_name, ty) ==
    [topic_name |-> topic_name, topic |-> topic_id, account |-> account_name,
     ty |-> ty, queue |-> <<>>, enqueued |-> 0, dequeued |-> 0,
     state |-> "running", wpc |-> "loop",
     log |-> <<>>, received |-> <<>>, shed |-> <<>>, drained |-> <<>>,
     before |-> returned_puts, scheduled |-> FALSE, before_return |-> {}]

\* The overload test of enqueue (switchboard.hpp:189).
shed_needed(sub) ==
    sub.enqueued - sub.dequeued > high_water /\ sub.account = "imu_integrator"

\* The overload branch of enqueue: one timed dequeue from the head.
after_shed(sub) ==
    IF shed_needed(sub) /\ sub.queue # <<>>
    THEN [sub EXCEPT !.queue = Tail(@), !.shed = Append(@, Head(sub.queue).id)]
    ELSE sub

\* An enqueue that puts the event into the queue twice.
queue_enqueue_twice(sub, ev) ==
    [sub EXCEPT !.queue = Append(Append(@, ev), ev), !.enqueued = @ + 1,
                !.received = Append(Append(@, ev.id), ev.id)]

\* _m_queue.enqueue(std::move(this_event)); _m_enqueued++;
queue_enqueue(sub, ev) ==
    [sub EXCEPT !.queue = Append(@, ev), !.enqueued = @ + 1,
                !.received = Append(@, ev.id)]

\* topic_subscription::enqueue
enqueue(s, ev) ==
    IF shed_needed(subs[s]) /\ subs[s].queue = <<>>
    THEN /\ fatal' = "assert(0): overload dequeue timed out"
         /\ UNCHANGED subs
    ELSE IF subs[s].state # "running"
    THEN /\ fatal' = "Subscriber thread must be already running"
         /\ subs' = [subs EXCEPT ![s] = after_shed(subs[s])]
    ELSE /\ subs' = [subs EXCEPT ![s] = queue_enqueue(after_shed(subs[s]), ev)]
         /\ UNCHANGED fatal

client_vars == <<handles, pc, local>>
registry_vars == <<registry, topics_made, registry_lock>>

\* managed_thread's loop test, while (!_m_stop): the worker goes on to
\* thread_body, or to thread_on_stop once stop() was requested. A round of
\* thread_body whose timed wait ends without an event changes nothing and
\* leads back here, so the worker is taken to enter thread_body only when an
\* event is there for it.
worker_loop(s) ==
    /\ fatal = NoFatal
    /\ s \in SubIds
    /\ subs[s].wpc = "loop"
    /\ subs[s].state = "stopping" \/ subs[s].queue # <<>>
    /\ subs' = [subs EXCEPT ![s].wpc =
                    IF subs[s].state = "stopping" THEN "on_stop" ELSE "body"]
    /\ UNCHANGED <<registry_vars, topic_vars, client_vars, fatal, hist_vars>>

\* A callback handed the count as it was before the increment.
callback_stale_count(sub, ev, it_no) ==
    [sub EXCEPT !.log = Append(@, [id |-> ev.id, val |-> ev.val, it |-> it_no - 1])]

\* The lambda switchboard::schedule wraps around fn (switchboard.hpp:492-496):
\* the downcast to the subscriber's type, then fn(event, it_no).
callback(sub, ev, it_no) ==
    [sub EXCEPT !.log = Append(@, [id |-> ev.id, val |-> ev.val, it |-> it_no])]

\* topic_subscription::thread_body: wait_dequeue_timed takes the event at the
\* head of the queue, the worker counts it and invokes the callback.
thread_body_dequeue(s) ==
    /\ fatal = NoFatal
    /\ s \in SubIds
    /\ subs[s].wpc = "body"
    /\ subs[s].queue # <<>>
    /\ LET ev == Head(subs[s].queue)
           sub == [subs[s] EXCEPT !.queue = Tail(@), !.dequeued = @ + 1,
                                  !.wpc = "callback"]
       IN  IF dynamic_pointer_cast(sub.ty, ev) = NullEvent
           THEN /\ fatal' = "dynamically downcasting event -> specific_event failed"
                /\ subs' = [subs EXCEPT ![s] = sub]
           ELSE /\ subs' = [subs EXCEPT ![s] = callback(sub, ev, sub.dequeued)]
                /\ UNCHANGED fatal
    /\ UNCHANGED <<registry_vars, topic_vars, client_vars, hist_vars>>

\* The user callback returns; the worker is back at its loop test.
callback_return(s) ==
    /\ fatal = NoFatal
    /\ s \in SubIds
    /\ subs[s].wpc = "callback"
    /\ subs' = [subs EXCEPT ![s].wpc = "loop"]
    /\ UNCHANGED <<registry_vars, topic_vars, client_vars, fatal, hist_vars>>

\* A drain whose loop stops one entry short.
drain_one_short(sub, unprocessed) ==
    [sub EXCEPT !.queue = IF unprocessed = 0 THEN @ ELSE SubSeq(@, unprocessed, Len(@)),
                !.drained = [i \in 1..(unprocessed - 1) |-> sub.queue[i].id]]

\* The entries thread_on_stop's loop takes off the queue.
drain(sub, unprocessed) ==
    [sub EXCEPT !.queue = SubSeq(@, unprocessed + 1, Len(@)),
                !.drained = [i \in 1..unprocessed |-> sub.queue[i].id]]

\* managed_thread: on_stop has returned, the thread ends and can be joined.
thread_exit(sub) == [sub EXCEPT !.state = "stopped", !.wpc = "done"]

\* topic_subscription::thread_on_stop, after which the thread ends.
thread_on_stop(s) ==
    /\ fatal = NoFatal
    /\ s \in SubIds
    /\ subs[s].wpc = "on_stop"
    /\ LET unprocessed == subs[s].enqueued - subs[s].dequeued
       IN  IF unprocessed > Len(subs[s].queue)
           THEN /\ fatal' = "try_dequeue failed"
                /\ subs' = [subs EXCEPT ![s].queue = <<>>]
           ELSE /\ subs' = [subs EXCEPT ![s] = thread_exit(drain(subs[s], unprocessed))]
                /\ UNCHANGED fatal
    /\ UNCHANGED <<registry_vars, topic_vars, client_vars, hist_vars>>

\* ------------------------------------------------------------------- topic

\* An indexing of the ring that is off by one slot.
slot_shifted(serial_no) == (serial_no + 1) % latest_buffer_size

slot(serial_no) == serial_no % latest_buffer_size

Writers == {h \in handles : h.kind = "writer"}
Readers == {h \in handles : h.kind = "reader"}

\* writer::allocate: the id-th event built over the run, of the writer's type.
\* Its payload is different for every event.
allocate(id, ty) == [id |-> id, ty |-> ty, val |-> 10 * id]

\* writer::allocate builds the event, writer::put hands it to topic::put,
\* which computes serial_no = _m_latest_index.load() + 1.
put_load_upto(t, h, limit) ==
    /\ Running(t)
    /\ pc[t] = "idle"
    /\ h \in Writers
    /\ allocated < limit
    /\ allocated' = allocated + 1
    /\ pc' = [pc EXCEPT ![t] = "put_store"]
    /\ local' = [local EXCEPT ![t] =
                    [op |-> "put", name |-> h.name,
                     ev |-> allocate(allocated + 1, h.ty),
                     serial_no |-> latest_index[h.name] + 1, i |-> 0]]
    /\ UNCHANGED <<registry_vars, topic_vars, subs, handles, fatal, last_put,
                   returned_puts, stops, stopped_subs, names, last_read>>

\* A put of a run of at most MaxPublish events.
put_load(t, h) == put_load_upto(t, h, MaxPublish)

\* put without its store to the slot.
put_store_skipped(t) ==
    /\ Running(t)
    /\ pc[t] = "put_store"
    /\ pc' = [pc EXCEPT ![t] = "put_incr"]
    /\ UNCHANGED <<registry_vars, topic_vars, subs, handles, local, fatal, hist_vars>>

\* The threads other than t that are inside topic::put on the topic, between
\* their load of _m_latest_index and the end of their store to the slot of
\* this serial number: their (non-atomic) write of the slot can overlap an
\* access of it by t.
storing(t, topic_name, serial_no) ==
    {u \in Clients \ {t} : /\ pc[u] = "put_store"
                            /\ local[u].name = topic_name
                            /\ slot(local[u].serial_no) = slot(serial_no)}

\* _m_latest_buffer[index] = this_event; an assignment of a shared_ptr that
\* is not atomic: when it overlaps another thread's assignment of the same
\* slot the behaviour is undefined, and the build either completes the store
\* or corrupts the slot, which ends the process.
put_store(t) ==
    /\ Running(t)
    /\ pc[t] = "put_store"
    /\ \E raced \in (IF storing(t, local[t].name, local[t].serial_no) = {}
                      THEN {FALSE} ELSE {FALSE, TRUE}) :
          IF raced
          THEN /\ fatal' = "data race on _m_latest_buffer"
               /\ UNCHANGED <<latest_buffer, pc>>
          ELSE /\ latest_buffer' = [latest_buffer EXCEPT
                      ![local[t].name][slot(local[t].serial_no)] = local[t].ev]
               /\ pc' = [pc EXCEPT ![t] = "put_incr"]
               /\ UNCHANGED fatal
    /\ UNCHANGED <<registry_vars, latest_index, subscriptions, subscriptions_lock,
                   subs, handles, local, hist_vars>>

\* put without its increment of _m_latest_index.
put_incr_forgotten(t) ==
    /\ Running(t)
    /\ pc[t] = "put_incr"
    /\ pc' = [pc EXCEPT ![t] = "put_lock"]
    /\ UNCHANGED <<registry_vars, topic_vars, subs, handles, local, fatal, hist_vars>>

\* _m_latest_index++;
put_incr(t) ==
    /\ Running(t)
    /\ pc[t] = "put_incr"
    /\ latest_index' = [latest_index EXCEPT ![local[t].name] = @ + 1]
    /\ pc' = [pc EXCEPT ![t] = "put_lock"]
    /\ UNCHANGED <<registry_vars, latest_buffer, subscriptions, subscriptions_lock,
                   subs, handles, local, fatal, hist_vars>>

\* A put that goes on to its fan-out without waiting for the lock.
put_lock_unguarded(t) ==
    /\ Running(t)
    /\ pc[t] = "put_lock"
    /\ pc' = [pc EXCEPT ![t] = "put_fanout"]
    /\ local' = [local EXCEPT ![t].i = 1]
    /\ UNCHANGED <<registry_vars, topic_vars, subs, handles, fatal, hist_vars>>

\* std::unique_lock lock{_m_subscriptions_lock};
put_lock(t) ==
    /\ Running(t)
    /\ pc[t] = "put_lock"
    /\ subscriptions_lock[local[t].name] = Free
    /\ subscriptions_lock' = [subscriptions_lock EXCEPT ![local[t].name] = t]
    /\ pc' = [pc EXCEPT ![t] = "put_fanout"]
    /\ local' = [local EXCEPT ![t].i = 1]
    /\ UNCHANGED <<registry_vars, latest_index, latest_buffer, subscriptions,
                   subs, handles, fatal, hist_vars>>

\* One round of the loop over _m_subscriptions: ts.enqueue(copy of this_event).
put_enqueue(t) ==
    /\ Running(t)
    /\ pc[t] = "put_fanout"
    /\ local[t].i <= Len(subscriptions[local[t].name])
    /\ enqueue(subscriptions[local[t].name][local[t].i], local[t].ev)
    /\ local' = IF fatal' = NoFatal THEN [local EXCEPT ![t].i = @ + 1] ELSE local
    /\ UNCHANGED <<registry_vars, topic_vars, handles, pc, hist_vars>>

\* The loop is over: the lock is released and put returns.
put_return(t) ==
    /\ Running(t)
    /\ pc[t] = "put_fanout"
    /\ local[t].i > Len(subscriptions[local[t].name])
    /\ subscriptions_lock' = [subscriptions_lock EXCEPT ![local[t].name] = Free]
    /\ last_put' = [last_put EXCEPT ![local[t].name] = local[t].ev]
    /\ returned_puts' = returned_puts \cup {local[t].ev.id}
    /\ pc' = [pc EXCEPT ![t] = "idle"]
    /\ local' = [local EXCEPT ![t] = NoLocal]
    /\ UNCHANGED <<registry_vars, latest_index, latest_buffer, subscriptions,
                   subs, handles, fatal, allocated, stops, stopped_subs, names, last_read>>

\* A read that starts only when the topic's subscriptions lock is free.
get_load_locked(t, h, kind) ==
    /\ Running(t)
    /\ pc[t] = "idle"
    /\ h \in Readers
    /\ subscriptions_lock[h.name] = Free
    /\ pc' = [pc EXCEPT ![t] = "get_read"]
    /\ local' = [local EXCEPT ![t] =
                    [op |-> kind, name |-> h.name, ty |-> h.ty,
                     serial_no |-> latest_index[h.name]]]
    /\ UNCHANGED <<registry_vars, topic_vars, subs, handles, fatal, hist_vars>>

\* reader::get_ro / get_ro_nullable call topic::get, which first loads
\* serial_no = _m_latest_index.load().
get_load(t, h, kind) ==
    /\ Running(t)
    /\ pc[t] = "idle"
    /\ h \in Readers
    /\ pc' = [pc EXCEPT ![t] = "get_read"]
    /\ local' = [local EXCEPT ![t] =
                    [op |-> kind, name |-> h.name, ty |-> h.ty,
                     serial_no |-> latest_index[h.name]]]
    /\ UNCHANGED <<registry_vars, topic_vars, subs, handles, fatal, hist_vars>>

\* A read of the slot next to the one of the serial number.
topic_get_next_slot(topic_name, serial_no) ==
    latest_buffer[topic_name][(serial_no + 1) % latest_buffer_size]

\* topic::get's read of the slot.
topic_get(topic_name, serial_no) == latest_buffer[topic_name][slot(serial_no)]

\* A read without get_ro's assertion: get_ro returns the null pointer.
get_read_unasserted(t) ==
    /\ Running(t)
    /\ pc[t] = "get_read"
    /\ pc' = [pc EXCEPT ![t] = "idle"]
    /\ local' = [local EXCEPT ![t] = NoLocal]
    /\ UNCHANGED <<registry_vars, topic_vars, subs, handles, fatal, hist_vars>>

\* The rest of the read: topic::get reads the slot, get_ro_nullable downcasts
\* and asserts the cast, get_ro asserts that there is an event.
\* The outcomes of topic::get's copy of the slot: the slot's value; when the
\* copy overlaps another thread's (non-atomic) assignment of the same slot
\* the behaviour is undefined, and the build yields the old value, the value
\* being stored, or a torn copy.
slot_read(t) ==
    {topic_get(local[t].name, local[t].serial_no)}
       \cup {local[u].ev : u \in storing(t, local[t].name, local[t].serial_no)}
       \cup (IF storing(t, local[t].name, local[t].serial_no) = {}
             THEN {} ELSE {TornEvent})

get_read(t) ==
    /\ Running(t)
    /\ pc[t] = "get_read"
    /\ \E this_event \in slot_read(t) :
          LET this_specific_event == dynamic_pointer_cast(local[t].ty, this_event)
          IN  IF this_event = TornEvent
              THEN /\ fatal' = "data race on _m_latest_buffer"
                   /\ UNCHANGED <<pc, local, last_read>>
              ELSE IF this_event # NullEvent /\ this_specific_event = NullEvent
              THEN /\ fatal' = "dynamic cast failed"
                   /\ UNCHANGED <<pc, local, last_read>>
              ELSE IF local[t].op = "get_ro" /\ this_specific_event = NullEvent
              THEN /\ fatal' = "No event on topic yet"
                   /\ UNCHANGED <<pc, local, last_read>>
              ELSE /\ pc' = [pc EXCEPT ![t] = "idle"]
                   /\ local' = [local EXCEPT ![t] = NoLocal]
                   /\ last_read' = [last_read EXCEPT ![t] =
                          [n |-> local[t].serial_no, id |-> this_specific_event.id]]
                   /\ UNCHANGED fatal
    /\ UNCHANGED <<registry_vars, topic_vars, subs, handles,
                   allocated, last_put, returned_puts, stops, stopped_subs, names>>

\* A topic::schedule that appends its subscription without the lock.
topic_schedule_unlocked(t) ==
    /\ Running(t)
    /\ pc[t] = "schedule"
    /\ subs' = Append(subs, topic_subscription(local[t].name, local[t].topic,
                                               local[t].account, local[t].ty))
    /\ subscriptions' = [subscriptions EXCEPT ![local[t].name] =
                            Append(@, Len(subs) + 1)]
    /\ pc' = [pc EXCEPT ![t] = "schedule_return"]
    /\ local' = [local EXCEPT ![t].sub = Len(subs) + 1]
    /\ UNCHANGED <<registry_vars, latest_index, latest_buffer, subscriptions_lock,
                   handles, fatal, hist_vars>>

\* topic::schedule: under the exclusive lock, emplace_back a subscription;
\* the lock is released at the end of the scope.
topic_schedule(t) ==
    /\ Running(t)
    /\ pc[t] = "schedule"
    /\ subscriptions_lock[local[t].name] = Free
    /\ subs' = Append(subs, topic_subscription(local[t].name, local[t].topic,
                                               local[t].account, local[t].ty))
    /\ subscriptions' = [subscriptions EXCEPT ![local[t].name] =
                            Append(@, Len(subs) + 1)]
    /\ pc' = [pc EXCEPT ![t] = "schedule_return"]
    /\ local' = [local EXCEPT ![t].sub = Len(subs) + 1]
    /\ UNCHANGED <<registry_vars, latest_index, latest_buffer, subscriptions_lock,
                   handles, fatal, hist_vars>>

\* topic::schedule and switchboard::schedule return to the caller.
schedule_return(t) ==
    /\ Running(t)
    /\ pc[t] = "schedule_return"
    /\ subs' = [subs EXCEPT ![local[t].sub].scheduled = TRUE,
                            ![local[t].sub].before_return = returned_puts]
    /\ pc' = [pc EXCEPT ![t] = "idle"]
    /\ local' = [local EXCEPT ![t] = NoLocal]
    /\ UNCHANGED <<registry_vars, topic_vars, handles, fatal, hist_vars>>

\* -------------------------------------------------------------------- stop

\* The subscriptions in some topic's list.
Listed == {s \in SubIds : \E n \in Names :
              \E i \in 1..Len(subscriptions[n]) : subscriptions[n][i] = s}

\* switchboard::stop takes the registry lock shared and starts its loop over
\* the registry.
stop_begin(t) ==
    /\ Running(t)
    /\ pc[t] = "idle"
    /\ stops + Cardinality({u \in Clients : local[u].op = "stop"}) < MaxStops
    /\ registry_lock' = registry_lock \cup {t}
    /\ pc' = [pc EXCEPT ![t] = "stop_topics"]
    /\ local' = [local EXCEPT ![t] =
                    [op |-> "stop", name |-> "", existing |-> Listed,
                     todo |-> {n \in Names : found(n)}]]
    /\ UNCHANGED <<registry, topics_made, topic_vars, subs, handles, fatal, hist_vars>>

\* topic::stop of the next topic of the loop (an unordered_map: any order)
\* takes the topic's subscriptions lock exclusively.
topic_stop_lock(t, topic_name) ==
    /\ Running(t)
    /\ pc[t] = "stop_topics"
    /\ topic_name \in local[t].todo
    /\ subscriptions_lock[topic_name] = Free
    /\ subscriptions_lock' = [subscriptions_lock EXCEPT ![topic_name] = t]
    /\ pc' = [pc EXCEPT ![t] = "stop_clear"]
    /\ local' = [local EXCEPT ![t].name = topic_name]
    /\ UNCHANGED <<registry_vars, latest_index, latest_buffer, subscriptions,
                   subs, handles, fatal, hist_vars>>

\* managed_thread::stop as far as requesting the stop: running -> stopping.
request_stop(sub) ==
    IF sub.state = "running" THEN [sub EXCEPT !.state = "stopping"] ELSE sub

\* _m_subscriptions.clear() destroys the first remaining subscription:
\* ~managed_thread requests the worker to stop.
topic_stop_signal(t) ==
    /\ Running(t)
    /\ pc[t] = "stop_clear"
    /\ subscriptions[local[t].name] # <<>>
    /\ subs' = [subs EXCEPT ![Head(subscriptions[local[t].name])] = request_stop(@)]
    /\ pc' = [pc EXCEPT ![t] = "stop_join"]
    /\ UNCHANGED <<registry_vars, topic_vars, handles, local, fatal, hist_vars>>

\* The join of managed_thread::stop returns once the worker has ended; the
\* rest of the subscription is destroyed and it leaves the list.
topic_stop_join(t) ==
    /\ Running(t)
    /\ pc[t] = "stop_join"
    /\ subs[Head(subscriptions[local[t].name])].state = "stopped"
    /\ subscriptions' = [subscriptions EXCEPT ![local[t].name] = Tail(@)]
    /\ pc' = [pc EXCEPT ![t] = "stop_clear"]
    /\ UNCHANGED <<registry_vars, latest_index, latest_buffer, subscriptions_lock,
                   subs, handles, local, fatal, hist_vars>>

\* A topic::stop that also empties the topic's latest-value ring.
topic_stop_unlock_reset(t) ==
    /\ Running(t)
    /\ pc[t] = "stop_clear"
    /\ subscriptions[local[t].name] = <<>>
    /\ subscriptions_lock' = [subscriptions_lock EXCEPT ![local[t].name] = Free]
    /\ latest_index' = [latest_index EXCEPT ![local[t].name] = 0]
    /\ latest_buffer' = [latest_buffer EXCEPT ![local[t].name] = EmptyRing]
    /\ pc' = [pc EXCEPT ![t] = "stop_topics"]
    /\ local' = [local EXCEPT ![t].todo = @ \ {local[t].name}, ![t].name = ""]
    /\ UNCHANGED <<registry_vars, subscriptions, subs, handles, fatal, hist_vars>>

\* The list is empty: topic::stop releases the lock and returns.
topic_stop_unlock(t) ==
    /\ Running(t)
    /\ pc[t] = "stop_clear"
    /\ subscriptions[local[t].name] = <<>>
    /\ subscriptions_lock' = [subscriptions_lock EXCEPT ![local[t].name] = Free]
    /\ pc' = [pc EXCEPT ![t] = "stop_topics"]
    /\ local' = [local EXCEPT ![t].todo = @ \ {local[t].name}, ![t].name = ""]
    /\ UNCHANGED <<registry_vars, latest_index, latest_buffer, subscriptions,
                   subs, handles, fatal, hist_vars>>

\* The loop over the registry is over: switchboard::stop releases the
\* registry lock and returns.
stop_return(t) ==
    /\ Running(t)
    /\ pc[t] = "stop_topics"
    /\ local[t].todo = {}
    /\ registry_lock' = registry_lock \ {t}
    /\ stops' = stops + 1
    /\ stopped_subs' = stopped_subs \cup local[t].existing
    /\ pc' = [pc EXCEPT ![t] = "idle"]
    /\ local' = [local EXCEPT ![t] = NoLocal]
    /\ UNCHANGED <<registry, topics_made, topic_vars, subs, handles, fatal,
                   allocated, last_put, returned_puts, names, last_read>>

\* ----------------------------------------------------------- specification

Client(t) ==
    \/ \E n \in names, ty \in Types : get_writer(t, n, ty)
    \/ \E n \in names, ty \in Types : get_reader(t, n, ty)
    \/ \E a \in Accounts, n \in names, ty \in Types : schedule(t, a, n, ty)
    \/ try_register_emplace(t)
    \/ topic_schedule(t)
    \/ schedule_return(t)
    \/ \E h \in handles : put_load(t, h)
    \/ put_store(t)
    \/ put_incr(t)
    \/ put_lock(t)
    \/ put_enqueue(t)
    \/ put_return(t)
    \/ \E h \in handles, kind \in {"get_ro", "get_ro_nullable"} : get_load(t, h, kind)
    \/ get_read(t)
    \/ stop_begin(t)
    \/ \E n \in Names : topic_stop_lock(t, n)
    \/ topic_stop_signal(t)
    \/ topic_stop_join(t)
    \/ topic_stop_unlock(t)
    \/ stop_return(t)

Worker(s) ==
    \/ worker_loop(s)
    \/ thread_body_dequeue(s)
    \/ callback_return(s)
    \/ thread_on_stop(s)

Next ==
    \/ \E t \in Clients : Client(t)
    \/ \E s \in 1..MaxSubs : Worker(s)

Spec == Init /\ [][Next]_vars

\* Two client threads that get handles, schedule and stop concurrently, on
\* one topic name; nothing is published.
InitRace == InitWith({"t1", "t2"}, {"p"})

ClientRace(t) ==
    \/ \E n \in names, ty \in Types : get_writer(t, n, ty)
    \/ \E n \in names, ty \in Types : get_reader(t, n, ty)
    \/ \E a \in Accounts, n \in names, ty \in Types : schedule(t, a, n, ty)
    \/ try_register_emplace(t)
    \/ topic_schedule(t)
    \/ schedule_return(t)
    \/ stop_begin(t)
    \/ \E n \in Names : topic_stop_lock(t, n)
    \/ topic_stop_signal(t)
    \/ topic_stop_join(t)
    \/ topic_stop_unlock(t)
    \/ stop_return(t)

WorkerRace(s) ==
    \/ worker_loop(s)
    \/ thread_on_stop(s)

NextRace ==
    \/ \E t \in Clients : ClientRace(t)
    \/ \E s \in 1..MaxSubs : WorkerRace(s)

SpecRace == InitRace /\ [][NextRace]_vars

\* One client thread that never calls stop, and workers that are scheduled
\* fairly: a worker that can take a step (dequeue an event, return from the
\* callback) eventually takes it.
ClientLive(t) ==
    \/ \E n \in names, ty \in Types : get_writer(t, n, ty)
    \/ \E n \in names, ty \in Types : get_reader(t, n, ty)
    \/ \E a \in Accounts, n \in names, ty \in Types : schedule(t, a, n, ty)
    \/ try_register_emplace(t)
    \/ topic_schedule(t)
    \/ schedule_return(t)
    \/ \E h \in handles : put_load(t, h)
    \/ put_store(t)
    \/ put_incr(t)
    \/ put_lock(t)
    \/ put_enqueue(t)
    \/ put_return(t)
    \/ \E h \in handles, kind \in {"get_ro", "get_ro_nullable"} : get_load(t, h, kind)
    \/ get_read(t)

WorkerLive(s) ==
    \/ worker_loop(s)
    \/ thread_body_dequeue(s)
    \/ callback_return(s)

NextLive ==
    \/ \E t \in Clients : ClientLive(t)
    \/ \E s \in 1..MaxSubs : WorkerLive(s)

SpecLive ==
    /\ Init
    /\ [][NextLive]_vars
    /\ \A s \in 1..MaxSubs : WF_vars(WorkerLive(s))

\* Two client threads that get writers, put and schedule concurrently, on
\* one topic name.
InitOverlap == InitWith({"t1", "t2"}, {"p"})

ClientOverlap(t) ==
    \/ \E n \in names : get_writer(t, n, "i32")
    \/ \E n \in names : schedule(t, "S", n, "i32")
    \/ try_register_emplace(t)
    \/ topic_schedule(t)
    \/ schedule_return(t)
    \/ \E h \in handles : put_load(t, h)
    \/ put_store(t)
    \/ put_incr(t)
    \/ put_lock(t)
    \/ put_enqueue(t)
    \/ put_return(t)

NextOverlap ==
    \/ \E t \in Clients : ClientOverlap(t)
    \/ \E s \in 1..MaxSubs : WorkerLive(s)

SpecOverlap == InitOverlap /\ [][NextOverlap]_vars

\* One thread that gets a writer, schedules, puts and stops, and one thread
\* that gets a reader and reads, concurrently, on one topic name.
InitReader == InitWith({"t1", "t2"}, {"p"})

WriterClient(t) ==
    \/ \E n \in names : get_writer(t, n, "i32")
    \/ \E n \in names : schedule(t, "S", n, "i32")
    \/ try_register_emplace(t)
    \/ topic_schedule(t)
    \/ schedule_return(t)
    \/ \E h \in handles : put_load(t, h)
    \/ put_store(t)
    \/ put_incr(t)
    \/ put_lock(t)
    \/ put_enqueue(t)
    \/ put_return(t)
    \/ stop_begin(t)
    \/ \E n \in Names : topic_stop_lock(t, n)
    \/ topic_stop_signal(t)
    \/ topic_stop_join(t)
    \/ topic_stop_unlock(t)
    \/ stop_return(t)

ReaderClient(t) ==
    \/ \E n \in names : get_reader(t, n, "i32")
    \/ try_register_emplace(t)
    \/ \E h \in handles, kind \in {"get_ro", "get_ro_nullable"} : get_load(t, h, kind)
    \/ get_read(t)

NextReader ==
    \/ WriterClient("t1")
    \/ ReaderClient("t2")
    \/ \E s \in 1..MaxSubs : Worker(s)

SpecReader == InitReader /\ [][NextReader]_vars

\* The burst scenario: one thread that schedules the named subscriber, puts
\* up to MaxBurst events and stops, while the worker runs at any pace.
ShedClient(t) ==
    \/ \E n \in names : get_writer(t, n, "i32")
    \/ \E n \in names : schedule(t, "imu_integrator", n, "i32")
    \/ try_register_emplace(t)
    \/ topic_schedule(t)
    \/ schedule_return(t)
    \/ \E h \in handles : put_load_upto(t, h, MaxBurst)
    \/ put_store(t)
    \/ put_incr(t)
    \/ put_lock(t)
    \/ put_enqueue(t)
    \/ put_return(t)
    \/ stop_begin(t)
    \/ \E n \in Names : topic_stop_lock(t, n)
    \/ topic_stop_signal(t)
    \/ topic_stop_join(t)
    \/ topic_stop_unlock(t)
    \/ stop_return(t)

NextShed ==
    \/ \E t \in Clients : ShedClient(t)
    \/ \E s \in 1..MaxSubs : Worker(s)

SpecShed == Init /\ [][NextShed]_vars

\* Two client threads that get writers, schedule, put and stop concurrently,
\* on one topic name.
InitFabric == InitWith({"t1", "t2"}, {"p"})

ClientFabric(t) ==
    \/ \E n \in names : get_writer(t, n, "i32")
    \/ \E n \in names : schedule(t, "S", n, "i32")
    \/ try_register_emplace(t)
    \/ topic_schedule(t)
    \/ schedule_return(t)
    \/ \E h \in handles : put_load(t, h)
    \/ put_store(t)
    \/ put_incr(t)
    \/ put_lock(t)
    \/ put_enqueue(t)
    \/ put_return(t)
    \/ stop_begin(t)
    \/ \E n \in Names : topic_stop_lock(t, n)
    \/ topic_stop_signal(t)
    \/ topic_stop_join(t)
    \/ topic_stop_unlock(t)
    \/ stop_return(t)

NextFabric ==
    \/ \E t \in Clients : ClientFabric(t)
    \/ \E s \in 1..MaxSubs : Worker(s)

SpecFabric == InitFabric /\ [][NextFabric]_vars


\* A subscriber whose callback calls into the same switchboard, as the
\* callback of ground_truth_slam does (it publishes with a writer), and a main
\* thread t1 that registers, schedules, publishes and stops. The calls of the
\* callback of the first subscription are made by that subscription's worker
\* thread; they are the steps of client t2, taken only while the worker is in
\* the callback, and the callback returns once the call in progress has
\* returned. Every thread is scheduled fairly.
InitCallback == InitWith({"t1", "t2"}, {"p", "q"})

MainClient(t) ==
    \/ get_writer(t, "p", "i32")
    \/ schedule(t, "S", "p", "i32")
    \/ try_register_emplace(t)
    \/ topic_schedule(t)
    \/ schedule_return(t)
    \/ \E h \in handles : put_load(t, h)
    \/ put_store(t)
    \/ put_incr(t)
    \/ put_lock(t)
    \/ put_enqueue(t)
    \/ put_return(t)
    \/ stop_begin(t)
    \/ \E n \in Names : topic_stop_lock(t, n)
    \/ topic_stop_signal(t)
    \/ topic_stop_join(t)
    \/ topic_stop_unlock(t)
    \/ stop_return(t)

\* The worker of the first subscription is inside its callback.
InCallback == Len(subs) >= 1 /\ subs[1].wpc = "callback"

\* What the callback does with the switchboard: obtain a writer for a name
\* not yet registered, schedule on its own topic, or publish.
CallbackClient(t) ==
    /\ InCallback
    /\ \/ get_writer(t, "q", "i32")
       \/ schedule(t, "S", "p", "i32")
       \/ try_register_emplace(t)
       \/ topic_schedule(t)
       \/ schedule_return(t)
       \/ \E h \in handles : put_load(t, h)
       \/ put_store(t)
       \/ put_incr(t)
       \/ put_lock(t)
       \/ put_enqueue(t)
       \/ put_return(t)

\* The callback returns when its own computation is over.
WorkerCallback(s) ==
    \/ worker_loop(s)
    \/ thread_body_dequeue(s)
    \/ (s = 1 => pc["t2"] = "idle") /\ callback_return(s)
    \/ thread_on_stop(s)

NextCallback ==
    \/ MainClient("t1")
    \/ CallbackClient("t2")
    \/ \E s \in 1..MaxSubs : WorkerCallback(s)

SpecCallback ==
    /\ InitCallback
    /\ [][NextCallback]_vars
    /\ WF_vars(MainClient("t1"))
    /\ WF_vars(CallbackClient("t2"))
    /\ \A s \in 1..MaxSubs : WF_vars(WorkerCallback(s))

\* ------------------------------------------------------------------ claims

Count(seq, x) == Cardinality({i \in DOMAIN seq : seq[i] = x})

Ids(seq) == {seq[i].id : i \in DOMAIN seq}

\* No client is inside a put on the topic.
NoPutInProgress(n) ==
    \A t \in Clients : ~(local[t].op = "put" /\ local[t].name = n)

\* What the read that client t is in returns when it finishes now.
ReadValue(t) ==
    dynamic_pointer_cast(local[t].ty, topic_get(local[t].name, local[t].serial_no))

\* C1: with one writer, while no put is in progress on a topic that has had
\* a put, the slot at _m_latest_index holds the event of the last completed
\* put, as allocate built it, and a read returns it; when a put is about to
\* return, _m_latest_index is one more than when the put began and the slot
\* at _m_latest_index holds the event just put.
C1_LatestIsLastPut ==
    /\ \A n \in Names :
          NoPutInProgress(n) /\ last_put[n] # NullEvent =>
             /\ topic_get(n, latest_index[n]) = last_put[n]
             /\ last_put[n] = allocate(last_put[n].id, registry[n].ty)
             /\ \A t \in Clients :
                   pc[t] = "get_read" /\ local[t].name = n =>
                      ReadValue(t) = last_put[n]
    /\ \A t \in Clients :
          pc[t] = "put_fanout" =>
             /\ latest_index[local[t].name] = local[t].serial_no
             /\ topic_get(local[t].name, latest_index[local[t].name]) = local[t].ev

C1_Witness ==
    /\ pc["t1"] = "get_read"
    /\ Cardinality(returned_puts) >= 2
    /\ ReadValue("t1") = last_put["p"]
    /\ last_put["p"].id = 2

\* C2: in the fan-out of a put, every subscription of the list that the loop
\* has passed has received the event exactly once and those it has not
\* reached have not received it; no subscription ever receives an event
\* twice; and in a subscription other than the named one every received
\* event is exactly once in the queue, handed to the callback, or drained.
C2_EnqueuedExactlyOnce ==
    /\ \A t \in Clients :
          pc[t] = "put_fanout" /\ fatal = NoFatal =>
             \A j \in 1..Len(subscriptions[local[t].name]) :
                Count(subs[subscriptions[local[t].name][j]].received, local[t].ev.id)
                   = IF j < local[t].i THEN 1 ELSE 0
    /\ \A s \in SubIds : \A id \in 1..allocated :
          /\ Count(subs[s].received, id) <= 1
          /\ subs[s].account # "imu_integrator" =>
                Count(subs[s].received, id)
                   = Count([i \in DOMAIN subs[s].queue |-> subs[s].queue[i].id], id)
                     + Count([i \in DOMAIN subs[s].log |-> subs[s].log[i].id], id)
                     + Count(subs[s].drained, id)

C2_Witness ==
    /\ pc["t1"] = "put_fanout"
    /\ Len(subscriptions["p"]) = 2
    /\ local["t1"].i = 3
    /\ \A s \in {1, 2} : Count(subs[s].received, local["t1"].ev.id) = 1

\* C3: with one writer, the k-th callback invocation of a subscription
\* carries iteration number k, the events come in the order of their puts,
\* at most one invocation is in flight, and a subscription other than the
\* named one is handed exactly the events it received, in that order, with
\* their payloads.
C3_CallbackOrder ==
    \A s \in SubIds :
       /\ Len(subs[s].log) = subs[s].dequeued
       /\ \A k \in DOMAIN subs[s].log :
             /\ subs[s].log[k].it = k
             /\ k > 1 => subs[s].log[k - 1].id < subs[s].log[k].id
             /\ subs[s].log[k].id \in {subs[s].received[i] : i \in DOMAIN subs[s].received}
             /\ subs[s].log[k].val = allocate(subs[s].log[k].id, subs[s].ty).val
             /\ subs[s].account # "imu_integrator" =>
                   subs[s].log[k].id = subs[s].received[k]

C3_Witness ==
    \E s \in SubIds :
       /\ subs[s].account = "S"
       /\ subs[s].log = <<[id |-> 1, val |-> 10, it |-> 1],
                          [id |-> 2, val |-> 20, it |-> 2],
                          [id |-> 3, val |-> 30, it |-> 3]>>

\* C4: once a stop has returned, every subscription that existed when it was
\* called has its worker ended (so no callback is in flight or will be
\* invoked), its queue empty, and each event it received was either handed
\* to the callback or taken off the queue by the drain.
C4_StoppedAndDrained ==
    \A s \in stopped_subs :
       /\ subs[s].wpc = "done"
       /\ subs[s].state = "stopped"
       /\ subs[s].queue = <<>>
       /\ \A i \in DOMAIN subs[s].received :
             \/ subs[s].received[i] \in Ids(subs[s].log)
             \/ subs[s].received[i] \in {subs[s].drained[j] : j \in DOMAIN subs[s].drained}

C4_Witness ==
    /\ stops >= 1
    /\ \E s \in stopped_subs :
          /\ subs[s].log # <<>>
          /\ subs[s].drained # <<>>

\* Every handle, subscription and schedule call that has its topic refers to
\* the topic registered under its name, and no topic object was made twice.
C5_Attached ==
    /\ topics_made = Cardinality({n \in Names : found(n)})
    /\ \A h \in handles : found(h.name) /\ h.topic = registry[h.name].id
    /\ \A s \in SubIds : subs[s].topic = registry[subs[s].topic_name].id
    /\ \A t \in Clients :
          pc[t] = "schedule" => local[t].topic = registry[local[t].name].id

\* C5: there are as many topic objects as registered names (none was made
\* twice or replaced), every handle, every subscription and every schedule
\* call that has its topic refers to the topic registered under its name,
\* whether the calls came one after the other or from two threads at once,
\* and an entry of the registry never changes or goes away.
C5_OneTopicPerName ==
    /\ []C5_Attached
    /\ [][\A n \in Names : found(n) => registry'[n] = registry[n]]_vars

\* Both threads went through try_emplace for the same name and type, and
\* one topic was made.
C5_Witness ==
    /\ pc["t1"] = "schedule" /\ pc["t2"] = "schedule"
    /\ local["t1"].via = "try_emplace" /\ local["t2"].via = "try_emplace"
    /\ local["t1"].name = local["t2"].name
    /\ local["t1"].ty = local["t2"].ty
    /\ topics_made = 1

\* Client t asks for a reader or writer of type ty on a name whose topic has
\* another type.
C6_Mismatch(t, n, ty) ==
    /\ found(n)
    /\ registry[n].ty # ty
    /\ get_reader(t, n, ty) \/ get_writer(t, n, ty)

\* C6: a get_reader or get_writer call for a name that has a topic of
\* another type ends the process with the type-mismatch abort, and leaves
\* the handles, the registry, the topic (type, ring, index, subscription
\* list) and the subscriptions as they were; no handle ever has a type other
\* than its topic's.
C6_TypeMismatchFatal ==
    /\ [](\A h \in handles : h.ty = registry[h.name].ty)
    /\ [][\A t \in Clients, n \in Names, ty \in Types :
             C6_Mismatch(t, n, ty) =>
                /\ fatal' = "TypeMismatch"
                /\ UNCHANGED <<handles, registry, topics_made, latest_index,
                               latest_buffer, subscriptions, subs>>]_vars

\* The scenario get_writer<i32>("p") then get_reader<f64>("p").
C6_Witness ==
    /\ fatal = "TypeMismatch"
    /\ handles = {[kind |-> "writer", name |-> "p", ty |-> "i32", topic |-> 1]}
    /\ subs = <<>>

\* Nothing was ever put on the topic.
Unpublished(n) == latest_index[n] = 0 /\ latest_buffer[n] = EmptyRing

\* C7 as claimed: a read never ends the process (get_ro on a topic without
\* an event reports an error to its caller).
C7_ReadNeverFatal == fatal # "No event on topic yet"

\* C7 as amended: on a topic on which nothing was put, the read finds the
\* null pointer; get_ro_nullable returns it and the process goes on, get_ro
\* fails its assertion, which ends the process; neither changes the topic,
\* the registry or the subscriptions.
C7_FreshTopicRead ==
    [][\A t \in Clients :
          pc[t] = "get_read" /\ Unpublished(local[t].name) /\ get_read(t) =>
             /\ ReadValue(t) = NullEvent
             /\ local[t].op = "get_ro_nullable" => fatal' = NoFatal /\ pc'[t] = "idle"
             /\ local[t].op = "get_ro" => fatal' = "No event on topic yet"
             /\ UNCHANGED <<registry, topics_made, latest_index, latest_buffer,
                            subscriptions, subs, handles>>]_vars

C7_Witness ==
    /\ fatal = "No event on topic yet"
    /\ pc["t1"] = "get_read"
    /\ Unpublished(local["t1"].name)

\* Subscription s has received the event with this id.
Received(s, id) ==
    s \in SubIds /\ \E i \in DOMAIN subs[s].received : subs[s].received[i] = id

\* Subscription s's callback was invoked on the event with this id.
Delivered(s, id) == s \in SubIds /\ id \in Ids(subs[s].log)

\* C8: without stop and with fairly scheduled workers, every event that a
\* subscription received is eventually handed to its callback (unless a
\* failed assertion ends the process).
C8_EventuallyDelivered ==
    \A s \in 1..MaxSubs, id \in 1..MaxPublish :
       Received(s, id) ~> (Delivered(s, id) \/ fatal # NoFatal)

\* C9 as claimed: a subscription never has, in its queue or among the
\* events it received or was called back on, an event whose put had returned
\* when the schedule call that made the subscription returned.
C9_NoneFromBeforeReturn ==
    \A s \in SubIds : \A id \in subs[s].before_return :
       /\ id \notin {subs[s].received[i] : i \in DOMAIN subs[s].received}
       /\ id \notin Ids(subs[s].queue)
       /\ id \notin Ids(subs[s].log)

\* C9 as amended: a subscription never has, in its queue or among the
\* events it received or was called back on, an event whose put had returned
\* when topic::schedule put the subscription on the topic's list.
C9_NoEarlierEvents ==
    \A s \in SubIds : \A id \in subs[s].before :
       /\ id \notin {subs[s].received[i] : i \in DOMAIN subs[s].received}
       /\ id \notin Ids(subs[s].queue)
       /\ id \notin Ids(subs[s].log)

\* A subscription made after a put had returned, which was since called
\* back on a later event.
C9_Witness ==
    \E s \in SubIds :
       /\ subs[s].before # {}
       /\ subs[s].scheduled
       /\ subs[s].log # <<>>

\* Client t is inside switchboard::stop.
InStop(t) == local[t].op = "stop"

\* Client t is inside a switchboard::stop that found no subscription.
InIdleStop(t) == local[t].op = "stop" /\ local[t].existing = {}

\* Once a stop has returned, the handles' topics are still registered, the
\* slot at _m_latest_index holds the event of the last completed put, a read
\* returns it, and a put about to return has installed its event.
C10_AfterStop ==
    stops >= 1 =>
       /\ \A h \in handles : found(h.name)
       /\ \A n \in Names :
             NoPutInProgress(n) /\ last_put[n] # NullEvent =>
                /\ topic_get(n, latest_index[n]) = last_put[n]
                /\ \A t \in Clients :
                      pc[t] = "get_read" /\ local[t].name = n =>
                         ReadValue(t) = last_put[n]
       /\ \A t \in Clients :
             pc[t] = "put_fanout" =>
                topic_get(local[t].name, latest_index[local[t].name]) = local[t].ev

\* C10: no step taken while a client is inside stop changes the registry,
\* a topic's type, index or ring, or the handles; a stop called when there
\* is no subscription changes no subscription and no subscription list;
\* and once a stop has returned, the handles' topics are still registered,
\* the slot at _m_latest_index still holds the event of the last completed
\* put, a read returns it, and a put about to return has installed its event.
C10_StopFrame ==
    /\ []C10_AfterStop
    /\ [][\A t \in Clients :
             /\ InStop(t) \/ InStop(t)' =>
                   UNCHANGED <<registry, topics_made, latest_index, latest_buffer,
                               handles, last_put>>
             /\ InIdleStop(t) \/ InIdleStop(t)' =>
                   UNCHANGED <<subs, subscriptions>>]_vars

\* After two stops, a read is about to return an event that was put after
\* the stop that ended a subscription.
C10_Witness ==
    /\ stops = 2
    /\ pc["t1"] = "get_read"
    /\ last_put["p"] # NullEvent
    /\ ReadValue("t1") = last_put["p"]
    /\ \E s \in stopped_subs :
          /\ last_put["p"].id \notin subs[s].before
          /\ last_put["p"].id \notin {subs[s].received[i] : i \in DOMAIN subs[s].received}

\* C11: once a stop has returned, no step puts an event into a subscription's
\* queue or invokes a callback, whatever calls of get_writer, get_reader,
\* schedule and put follow (a subscription made after the stop stays without
\* events).
C11_SilentAfterStop ==
    [][stops >= 1 =>
          \A s \in DOMAIN subs' :
             /\ subs'[s].received = IF s \in SubIds THEN subs[s].received ELSE <<>>
             /\ subs'[s].log = IF s \in SubIds THEN subs[s].log ELSE <<>>]_vars

\* C12: for a subscription of the named account, over a burst of puts
\* followed by stop, the iteration numbers of the callbacks increase
\* strictly, neither the assertion of enqueue's overload branch nor the one
\* of the drain fails, and once the stop has returned the queue is empty and
\* a subscription that shed had fewer callbacks than events.
C12_BurstSurvives ==
    /\ fatal \notin {"assert(0): overload dequeue timed out", "try_dequeue failed"}
    /\ \A s \in SubIds :
          subs[s].account = "imu_integrator" =>
             /\ \A k \in DOMAIN subs[s].log :
                   k > 1 => subs[s].log[k - 1].it < subs[s].log[k].it
             /\ s \in stopped_subs =>
                   /\ subs[s].queue = <<>>
                   /\ subs[s].shed # <<>> => Len(subs[s].log) < Len(subs[s].received)

\* C13: a thread that holds a reader can start a read, and a thread inside a
\* read can finish it, in every state in which the process runs, whoever
\* holds the registry lock or the topic's subscriptions lock; and no step of
\* a read takes or releases either lock.
C13_LatestNeverBlocks ==
    /\ [](\A t \in Clients :
            Running(t) =>
               /\ pc[t] = "idle" =>
                     \A h \in Readers :
                        /\ ENABLED get_load(t, h, "get_ro_nullable")
                        /\ ENABLED get_load(t, h, "get_ro")
               /\ pc[t] = "get_read" => ENABLED get_read(t))
    /\ [][\A t \in Clients :
             \/ get_read(t)
             \/ \E h \in handles, kind \in {"get_ro", "get_ro_nullable"} :
                   get_load(t, h, kind)
             => UNCHANGED <<registry_lock, subscriptions_lock>>]_vars

\* The reader is inside a read while the other thread, inside stop, holds
\* the subscriptions lock exclusively and the registry lock shared and waits
\* for a worker that has not ended.
C13_Witness ==
    /\ pc["t2"] = "get_read"
    /\ pc["t1"] = "stop_join"
    /\ subscriptions_lock["p"] = "t1"
    /\ "t1" \in registry_lock
    /\ subs[Head(subscriptions["p"])].state = "stopping"
    /\ ENABLED get_read("t2")

\* C14: two threads inside put on one topic never have the same serial
\* number, and whenever no put is in progress after puts have returned,
\* _m_latest_index is the number of puts that returned, every one of them
\* recent enough for the ring is in its slot, and the slot at
\* _m_latest_index holds one of the events put (not a null pointer).
C14_ConcurrentPut ==
    /\ fatal # "data race on _m_latest_buffer"
    /\ \A t, u \in Clients :
          /\ t # u
          /\ local[t].op = "put" /\ local[u].op = "put"
          /\ local[t].name = local[u].name
          => local[t].serial_no # local[u].serial_no
    /\ \A n \in Names :
          NoPutInProgress(n) /\ last_put[n] # NullEvent =>
             /\ latest_index[n] = Cardinality(returned_puts)
             /\ topic_get(n, latest_index[n]) # NullEvent
             /\ topic_get(n, latest_index[n]).id \in returned_puts

\* C15: every handle, every subscription and every schedule call that has
\* got its topic has the type of the topic registered under its name.
C15_AttachedTypeMatches ==
    /\ \A h \in handles : h.ty = registry[h.name].ty
    /\ \A s \in SubIds : subs[s].ty = registry[subs[s].topic_name].ty
    /\ \A t \in Clients :
          pc[t] \in {"schedule", "schedule_return"} =>
             local[t].ty = registry[local[t].name].ty

\* latest_ring[(latest_index - k) mod size] of the topic.
RingSlot(n, k) ==
    latest_buffer[n][(latest_index[n] + latest_buffer_size - k) % latest_buffer_size]

\* The event published k publishes before the latest one, or the null
\* pointer if fewer than k + 1 events have been published.
KthLatest(n, k) ==
    IF latest_index[n] >= k + 1
    THEN allocate(latest_index[n] - k, registry[n].ty)
    ELSE NullEvent

\* The threads inside a put on the topic that have written the slot and not
\* yet advanced _m_latest_index.
Storers(n) == {t \in Clients : pc[t] = "put_incr" /\ local[t].name = n}

\* C16 as claimed: in every state, for every k below the ring's depth, the
\* slot k behind _m_latest_index holds the event published k publishes
\* before the latest, and is empty if fewer than k + 1 were published.
C16_RingSlots ==
    \A n \in Names : \A k \in 0..(latest_buffer_size - 1) :
       RingSlot(n, k) = KthLatest(n, k)

\* C16 as amended: the same, except that while a put has written its slot
\* and not yet advanced _m_latest_index, the slot one ahead of
\* _m_latest_index (k = depth - 1) holds the event being put.
C16_RingSlotsOutsideStore ==
    \A n \in Names : \A k \in 0..(latest_buffer_size - 1) :
       IF k = latest_buffer_size - 1 /\ Storers(n) # {}
       THEN \A t \in Storers(n) : RingSlot(n, k) = local[t].ev
       ELSE RingSlot(n, k) = KthLatest(n, k)

\* The third put has written its event over the first one's slot and not
\* yet advanced the index; the slot at the index holds the second event.
C16_Witness ==
    /\ pc["t1"] = "put_incr"
    /\ latest_index["p"] = 2
    /\ RingSlot("p", 0) = allocate(2, "i32")
    /\ RingSlot("p", latest_buffer_size - 1) = allocate(3, "i32")

\* C17: whenever _m_latest_index is n >= 1 the slot of n is not empty, in
\* the middle of a put too, and a read that loaded an index n >= 1 has no
\* outcome that is the null pointer.
C17_SlotBeforeIndex ==
    /\ \A n \in Names :
          latest_index[n] >= 1 => topic_get(n, latest_index[n]) # NullEvent
    /\ \A t \in Clients :
          pc[t] = "get_read" /\ local[t].serial_no >= 1 =>
             NullEvent \notin slot_read(t)

\* The reader has loaded the index while the writer is in the middle of a
\* put: the slot was written, the index not yet advanced.
C17_Witness ==
    /\ pc["t1"] = "put_incr"
    /\ pc["t2"] = "get_read"
    /\ local["t2"].serial_no = latest_index["p"]
    /\ local["t2"].serial_no >= 1
    /\ topic_get("p", local["t1"].serial_no) = local["t1"].ev

\* C18 as claimed: the serial number of the event a read returns is never
\* below the one the same thread's previous read returned.
C18_ReadsNeverDecrease ==
    [][\A t \in Clients : last_read'[t].id >= last_read[t].id]_vars

\* C18 as amended: a read returns an event whose serial number is at least
\* the index it loaded, and at least the serial number the thread's previous
\* read returned unless that previous read was overtaken by the writer
\* (its slot was rewritten between its load of the index and its read of
\* the slot, so that it returned a later event than the index it loaded).
C18_ReadsInOrderUnlessLapped ==
    [][\A t \in Clients :
          /\ last_read'[t].id >= last_read'[t].n
          /\ last_read[t].id = last_read[t].n =>
                last_read'[t].id >= last_read[t].id]_vars

\* The reader's previous read returned event 2 at index 2, and it has now
\* loaded index 3 while the writer is done: its slot is the one that held
\* event 1 before the ring wrapped around.
C18_Witness ==
    /\ last_read["t2"] = [n |-> 2, id |-> 2]
    /\ pc["t2"] = "get_read"
    /\ local["t2"].serial_no = 3
    /\ slot(3) = slot(1)
    /\ slot_read("t2") = {allocate(3, "i32")}

\* C19: the assertion of the drain never fails, and when a worker is about
\* to run its drain, enqueued - dequeued is the number of entries in its
\* queue.
C19_DrainAccountingExact ==
    /\ fatal # "try_dequeue failed"
    /\ \A s \in SubIds :
          subs[s].wpc = "on_stop" =>
             subs[s].enqueued - subs[s].dequeued = Len(subs[s].queue)

\* C20: enqueue's overload branch never times out on an empty queue, and a
\* step removes an event from a subscription's queue as shed only if the
\* subscription is the named one and its queue holds more events than the
\* high-water mark; the step then removes exactly the oldest event and
\* appends the new one.
C20_ShedsOnlyUnderOverload ==
    /\ [](fatal # "assert(0): overload dequeue timed out")
    /\ [][\A s \in SubIds :
             subs'[s].shed # subs[s].shed =>
                /\ subs[s].account = "imu_integrator"
                /\ Len(subs[s].queue) > high_water
                /\ subs'[s].shed = Append(subs[s].shed, Head(subs[s].queue).id)
                /\ Len(subs'[s].queue) = Len(subs[s].queue)
                /\ SubSeq(subs'[s].queue, 1, Len(subs[s].queue) - 1)
                      = Tail(subs[s].queue)]_vars

\* C21: the assertion of enqueue on the worker's state never fails; a step
\* that puts an event into a subscription's queue finds its worker running;
\* and a subscription in a topic's list has its worker running unless a
\* stop holds the topic's lock and is joining that worker.
C21_EnqueueOnlyWhenRunning ==
    /\ [](fatal # "Subscriber thread must be already running")
    /\ [](\A n \in Names : \A i \in 1..Len(subscriptions[n]) :
            \/ subs[subscriptions[n][i]].state = "running"
            \/ \E t \in Clients : /\ pc[t] = "stop_join"
                                   /\ local[t].name = n
                                   /\ subscriptions_lock[n] = t
                                   /\ i = 1)
    /\ [][\A s \in SubIds :
             subs'[s].received # subs[s].received => subs[s].state = "running"]_vars

\* One thread is in the fan-out of a put and has enqueued to a running
\* worker, while the other thread is inside stop and waits for the lock,
\* after an earlier stop ended an earlier subscription.
C21_Witness ==
    /\ pc["t1"] = "put_fanout"
    /\ local["t1"].i = 2
    /\ pc["t2"] = "stop_topics"
    /\ "p" \in local["t2"].todo
    /\ stops = 1
    /\ Len(subs) = 2
    /\ subs[1].state = "stopped"
    /\ subs[2].state = "running"
    /\ subs[2].received # <<>>

\* C22: with every thread scheduled fairly and every callback's own
\* computation finite, a call of stop returns (unless a failed assertion ends
\* the process), also when a callback in flight calls into the switchboard.
C22_StopTerminates ==
    \A k \in 0..(MaxStops - 1) :
       (InStop("t1") /\ stops = k) ~> (stops > k \/ fatal # NoFatal)

\* C23: a thread in the fan-out of a put, and a thread clearing a topic's
\* list in stop, holds that topic's lock; no step taken while a put is in its
\* fan-out changes the list of the topic; and at every point of the fan-out
\* exactly the subscriptions before the loop's position have received the
\* event, so that the list a publish ends with is the one it began with.
C23_FanOutAtomic ==
    /\ [](\A t \in Clients :
            pc[t] \in {"put_fanout", "stop_clear", "stop_join"}
               => subscriptions_lock[local[t].name] = t)
    /\ [](\A t \in Clients :
            (pc[t] = "put_fanout" /\ fatal = NoFatal) =>
               \A j \in 1..Len(subscriptions[local[t].name]) :
                  Count(subs[subscriptions[local[t].name][j]].received,
                        local[t].ev.id) = IF j < local[t].i THEN 1 ELSE 0)
    /\ [][\A t \in Clients :
             pc[t] = "put_fanout" =>
                subscriptions'[local[t].name] = subscriptions[local[t].name]]_vars

\* One thread is between the first and the last enqueue of a put to two
\* subscriptions, while the other thread is inside stop and waits to clear
\* the list of the same topic.
C23_Witness ==
    /\ pc["t1"] = "put_fanout"
    /\ Len(subscriptions["p"]) = 2
    /\ local["t1"].i = 2
    /\ Count(subs[subscriptions["p"][1]].received, local["t1"].ev.id) = 1
    /\ Count(subs[subscriptions["p"][2]].received, local["t1"].ev.id) = 0
    /\ pc["t2"] = "stop_topics"
    /\ "p" \in local["t2"].todo

=============================================================================
